---- MODULE Spec2Model ----
(***************************************************************************)
(* Model of the HashBuilds Secure Prompts MCP server (src/src/index.ts):   *)
(* the tool-call handler with its cases, the auditPrompts                  *)
(* classifier/aggregator, and the registerPrompt / verifyPrompt calls of   *)
(* the remote service.                                                     *)
(*                                                                         *)
(* A JavaScript string is the sequence of its UTF-16 code units.  A code   *)
(* unit is written as the one-character string of that unit when the      *)
(* module's character set has it, and by its name "\uXXXX" otherwise.     *)
(* Str turns a string literal of the source into this form.  Field names,  *)
(* tool names, the enumerated values of context and suggestedAction and    *)
(* the messages of errors are TLA+ strings: the program only compares or   *)
(* copies them.                                                            *)
(*                                                                         *)
(* The regular expressions of the source are token sequences interpreted   *)
(* by a small backtracking matcher with the semantics of RegExp.test       *)
(* under the /i flag.                                                      *)
(*                                                                         *)
(* The handler is an async function: a handler started for one request is  *)
(* suspended at each await, and other requests are received and handled    *)
(* meanwhile.  The state is kept per handler.                              *)
(***************************************************************************)
EXTENDS Integers, Sequences, FiniteSets, TLC

VARIABLES request, pc, awaited, response, classifierCalls, remote, earlier

vars == <<request, pc, awaited, response, classifierCalls, remote, earlier>>

(***************************************************************************)
(* Strings                                                                 *)
(***************************************************************************)

\* The code units of a string literal
Str(s) == [i \in 1..Len(s) |-> SubSeq(s, i, i)]

\* The code units without a character in the module that the program's
\* strings and patterns hold
Backtick == "\\u0060"    \* GRAVE ACCENT
LS       == "\\u2028"    \* LINE SEPARATOR
PS       == "\\u2029"    \* PARAGRAPH SEPARATOR
LockHigh == "\\uD83D"    \* the two code units of U+1F512 (lock emoji)
LockLow  == "\\uDD12"

CharAt(s, i) == s[i]

LOWER == Str("abcdefghijklmnopqrstuvwxyz")
UPPER == Str("ABCDEFGHIJKLMNOPQRSTUVWXYZ")

\* Case folding of the /i flag (no /u flag): a code unit is compared by its
\* upper-case form, and a non-ASCII unit never folds to an ASCII one; for
\* the ASCII patterns of this program only a-z fold.
CanonMap == [ch \in {CharAt(LOWER, i) : i \in 1..26} |->
               CharAt(UPPER, CHOOSE i \in 1..26 : CharAt(LOWER, i) = ch)]

Canonicalize(ch) == IF ch \in DOMAIN CanonMap THEN CanonMap[ch] ELSE ch

\* The code units that the regular-expression atom "." does not match
LineTerminators == {"\n", "\r", LS, PS}

\* s.substring(0, n) for 0 <= n
Substring0(s, n) == IF Len(s) <= n THEN s ELSE SubSeq(s, 1, n)

EndsWith(s, suffix) ==
    /\ Len(s) >= Len(suffix)
    /\ SubSeq(s, Len(s) - Len(suffix) + 1, Len(s)) = suffix

Digits == Str("0123456789")

\* Variant of NumberToString that renders only the last decimal digit.
NumberToStringLastDigit(n) == <<CharAt(Digits, (n % 10) + 1)>>

\* String(n) for a non-negative integer n, as a template literal renders it
RECURSIVE NumberToString(_)
NumberToString(n) ==
    IF n < 10 THEN <<CharAt(Digits, n + 1)>>
    ELSE NumberToString(n \div 10) \o <<CharAt(Digits, (n % 10) + 1)>>

(***************************************************************************)
(* Regular expressions                                                     *)
(***************************************************************************)

Lit(s)  == [t |-> "lit", s |-> Str(s)]      \* a run of literal characters
Opt(c)  == [t |-> "opt", s |-> Str(c)]      \* c?
DotStar == [t |-> "dotstar", s |-> <<>>]    \* .*
End     == [t |-> "end", s |-> <<>>]        \* $ (no /m flag: end of input only)

\* The literal lit occurs in s at position pos, ignoring case.
LitAt(s, lit, pos) ==
    /\ pos + Len(lit) - 1 <= Len(s)
    /\ \A k \in 1..Len(lit) :
          Canonicalize(CharAt(s, pos + k - 1)) = Canonicalize(CharAt(lit, k))

\* s[from..to] contains no line terminator
NoLineTerminator(s, from, to) ==
    \A k \in from..to : CharAt(s, k) \notin LineTerminators

\* Tokens k.. of the alternative toks match s starting exactly at pos.
RECURSIVE MatchHere(_, _, _, _)
MatchHere(s, toks, k, pos) ==
    IF k > Len(toks) THEN TRUE
    ELSE CASE toks[k].t = "lit" ->
                /\ LitAt(s, toks[k].s, pos)
                /\ MatchHere(s, toks, k + 1, pos + Len(toks[k].s))
           [] toks[k].t = "opt" ->
                \/ /\ LitAt(s, toks[k].s, pos)
                   /\ MatchHere(s, toks, k + 1, pos + 1)
                \/ MatchHere(s, toks, k + 1, pos)
           [] toks[k].t = "dotstar" ->
                \E j \in pos..(Len(s) + 1) :
                    /\ NoLineTerminator(s, pos, j - 1)
                    /\ MatchHere(s, toks, k + 1, j)
           [] toks[k].t = "end" ->
                /\ pos = Len(s) + 1
                /\ MatchHere(s, toks, k + 1, pos)

\* re.test(s) for a regular expression without the g/y flags: some
\* alternative matches at some position of s.
RegExpTest(re, s) ==
    \E a \in 1..Len(re) : \E pos \in 1..(Len(s) + 1) : MatchHere(s, re[a], 1, pos)
\* /public\/|PROMPT_.*\.txt/i
PublicFileRE == << <<Lit("public/")>>,
                   <<Lit("PROMPT_"), DotStar, Lit(".txt")>> >>

\* /api\/|\.server\.|route\.ts/i
ApiFileRE == << <<Lit("api/")>>, <<Lit(".server.")>>, <<Lit("route.ts")>> >>

\* Variant of ComponentFileRE with a stray alternative: /components?\/|\.tsx|$/i
ComponentFileRELoose == << <<Lit("component"), Opt("s"), Lit("/")>>,
                           <<Lit(".tsx")>>, <<End>> >>

\* /components?\/|\.tsx$/i
ComponentFileRE == << <<Lit("component"), Opt("s"), Lit("/")>>,
                      <<Lit(".tsx"), End>> >>

USER_FACING_PATTERNS == <<
    \* /copy.*button|copyable|clipboard/i
    << <<Lit("copy"), DotStar, Lit("button")>>, <<Lit("copyable")>>,
       <<Lit("clipboard")>> >>,
    \* /onClick.*copy|handleCopy/i
    << <<Lit("onClick"), DotStar, Lit("copy")>>, <<Lit("handleCopy")>> >>,
    \* /data-prompt|promptText.*prop/i
    << <<Lit("data-prompt")>>, <<Lit("promptText"), DotStar, Lit("prop")>> >>,
    \* /user.*can.*copy|copy.*to.*clipboard/i
    << <<Lit("user"), DotStar, Lit("can"), DotStar, Lit("copy")>>,
       <<Lit("copy"), DotStar, Lit("to"), DotStar, Lit("clipboard")>> >>,
    \* /<pre>|<code>|CodeBlock/i
    << <<Lit("<pre>")>>, <<Lit("<code>")>>, <<Lit("CodeBlock")>> >>,
    \* /PROMPT_.*\.txt|public\/.*prompt/i
    << <<Lit("PROMPT_"), DotStar, Lit(".txt")>>,
       <<Lit("public/"), DotStar, Lit("prompt")>> >>
>>

INTERNAL_PATTERNS == <<
    \* /api\/|server|backend/i
    << <<Lit("api/")>>, <<Lit("server")>>, <<Lit("backend")>> >>,
    \* /process\.env|getServerSide/i
    << <<Lit("process.env")>>, <<Lit("getServerSide")>> >>,
    \* /internal|private|system/i
    << <<Lit("internal")>>, <<Lit("private")>>, <<Lit("system")>> >>,
    \* /\.server\.|route\.ts|api\//i
    << <<Lit(".server.")>>, <<Lit("route.ts")>>, <<Lit("api/")>> >>
>>

(***************************************************************************)
(* auditPrompts                                                            *)
(***************************************************************************)

\* prompt.surroundingCode || ''
Surrounding(prompt) ==
    IF "surroundingCode" \in DOMAIN prompt /\ Len(prompt.surroundingCode) > 0
    THEN prompt.surroundingCode
    ELSE <<>>

isPublicFile(filePath) == RegExpTest(PublicFileRE, filePath)
isApiFile(filePath) == RegExpTest(ApiFileRE, filePath)
isComponentFile(filePath) == RegExpTest(ComponentFileRE, filePath)

\* PATTERNS.some(p => p.test(surrounding) || p.test(filePath))
SomePattern(patterns, surrounding, filePath) ==
    \E p \in 1..Len(patterns) :
        RegExpTest(patterns[p], surrounding) \/ RegExpTest(patterns[p], filePath)

hasUserFacingIndicators(surrounding, filePath) ==
    SomePattern(USER_FACING_PATTERNS, surrounding, filePath)

hasInternalIndicators(surrounding, filePath) ==
    SomePattern(INTERNAL_PATTERNS, surrounding, filePath)

\* Variant of DetermineContext that tests the API/internal branch first.
DetermineContextApiFirst(isPublic, hasUserFacing, isApi, hasInternal, isComponent) ==
    IF isApi \/ hasInternal
    THEN [context |-> "internal",
          confidence |-> IF isApi THEN 90 ELSE 70]
    ELSE IF isPublic \/ hasUserFacing
    THEN [context |-> "user_facing",
          confidence |-> IF isPublic THEN 95 ELSE 75]
    ELSE IF isComponent
    THEN [context |-> IF hasUserFacing THEN "user_facing" ELSE "unknown",
          confidence |-> 60]
    ELSE [context |-> "unknown", confidence |-> 50]

\* Variant of DetermineContext that tests the component branch first.
DetermineContextComponentFirst(isPublic, hasUserFacing, isApi, hasInternal, isComponent) ==
    IF isComponent
    THEN [context |-> IF hasUserFacing THEN "user_facing" ELSE "unknown",
          confidence |-> 60]
    ELSE IF isPublic \/ hasUserFacing
    THEN [context |-> "user_facing",
          confidence |-> IF isPublic THEN 95 ELSE 75]
    ELSE IF isApi \/ hasInternal
    THEN [context |-> "internal",
          confidence |-> IF isApi THEN 90 ELSE 70]
    ELSE [context |-> "unknown", confidence |-> 50]

\* The if / else-if chain that sets context and confidence; the initial
\* values 'unknown' and 50 remain when no branch is taken.
DetermineContext(isPublic, hasUserFacing, isApi, hasInternal, isComponent) ==
    IF isPublic \/ hasUserFacing
    THEN [context |-> "user_facing",
          confidence |-> IF isPublic THEN 95 ELSE 75]
    ELSE IF isApi \/ hasInternal
    THEN [context |-> "internal",
          confidence |-> IF isApi THEN 90 ELSE 70]
    ELSE IF isComponent
    THEN [context |-> IF hasUserFacing THEN "user_facing" ELSE "unknown",
          confidence |-> 60]
    ELSE [context |-> "unknown", confidence |-> 50]

\* Variant of DetermineAction with a strict threshold.
DetermineActionStrict(context, confidence) ==
    IF context = "user_facing" /\ confidence > 70 THEN "register_badge"
    ELSE IF context = "internal" /\ confidence > 70 THEN "audit_only"
    ELSE "review"

DetermineAction(context, confidence) ==
    IF context = "user_facing" /\ confidence >= 70 THEN "register_badge"
    ELSE IF context = "internal" /\ confidence >= 70 THEN "audit_only"
    ELSE "review"

\* Variant of Preview that keeps 99 characters.
PreviewShort(promptText) ==
    Substring0(promptText, 99) \o (IF Len(promptText) > 100 THEN Str("...") ELSE <<>>)

\* Variant of Preview that appends the ellipsis from length 100 on.
PreviewInclusive(promptText) ==
    Substring0(promptText, 100) \o (IF Len(promptText) >= 100 THEN Str("...") ELSE <<>>)

\* promptText.substring(0, 100) + (promptText.length > 100 ? '...' : '')
Preview(promptText) ==
    Substring0(promptText, 100) \o (IF Len(promptText) > 100 THEN Str("...") ELSE <<>>)

\* Variant of Classify that falls back on promptText for the surrounding code.
ClassifyPromptAsSurrounding(prompt) ==
    LET surrounding == IF Len(Surrounding(prompt)) = 0 THEN prompt.promptText
                       ELSE Surrounding(prompt)
        filePath    == prompt.filePath
        hasUF       == hasUserFacingIndicators(surrounding, filePath)
        hasInt      == hasInternalIndicators(surrounding, filePath)
        cc          == DetermineContext(isPublicFile(filePath), hasUF,
                                        isApiFile(filePath), hasInt,
                                        isComponentFile(filePath))
    IN  [filePath        |-> prompt.filePath,
         lineNumber      |-> prompt.lineNumber,
         promptText      |-> prompt.promptText,
         context         |-> cc.context,
         confidence      |-> cc.confidence,
         suggestedAction |-> DetermineAction(cc.context, cc.confidence),
         preview         |-> Preview(prompt.promptText)]

\* The string a regular expression tests for prompt.filePath: test()
\* converts its argument to a string, a missing property to "undefined".
FilePathString(prompt) ==
    IF "filePath" \in DOMAIN prompt THEN prompt.filePath ELSE Str("undefined")

\* filePath, lineNumber and promptText as copied into the candidate; a
\* property missing from the prompt is undefined in the candidate and so
\* missing from the serialized result.
Echo(prompt) ==
    [f \in DOMAIN prompt \cap {"filePath", "lineNumber", "promptText"} |-> prompt[f]]

\* One iteration of the loop: the candidate pushed for one prompt.
Classify(prompt) ==
    LET surrounding == Surrounding(prompt)
        filePath    == FilePathString(prompt)
        hasUF       == hasUserFacingIndicators(surrounding, filePath)
        hasInt      == hasInternalIndicators(surrounding, filePath)
        cc          == DetermineContext(isPublicFile(filePath), hasUF,
                                        isApiFile(filePath), hasInt,
                                        isComponentFile(filePath))
    IN  Echo(prompt) @@
        [context         |-> cc.context,
         confidence      |-> cc.confidence,
         suggestedAction |-> DetermineAction(cc.context, cc.confidence),
         preview         |-> Preview(prompt.promptText)]

\* prompt.promptText.substring(...) on a prompt without promptText: the
\* loop ends with a TypeError at the first such prompt.
auditPromptsThrows(args) ==
    \E i \in 1..Len(args.prompts) : "promptText" \notin DOMAIN args.prompts[i]

\* Variant of ClassifyLoop that puts each new candidate at the front.
RECURSIVE ClassifyLoopUnshift(_, _, _)
ClassifyLoopUnshift(prompts, i, candidates) ==
    IF i > Len(prompts) THEN candidates
    ELSE ClassifyLoopUnshift(prompts, i + 1,
                             <<Classify(prompts[i])>> \o candidates)

\* Variant of ClassifyLoop whose context and confidence are declared outside
\* the loop: a prompt that takes no branch keeps the previous prompt's values.
RECURSIVE ClassifyLoopHoisted(_, _, _)
ClassifyLoopHoisted(prompts, i, candidates) ==
    IF i > Len(prompts) THEN candidates
    ELSE LET c        == Classify(prompts[i])
             path     == prompts[i].filePath
             sur      == Surrounding(prompts[i])
             noBranch == ~(\/ isPublicFile(path)
                           \/ hasUserFacingIndicators(sur, path)
                           \/ isApiFile(path)
                           \/ hasInternalIndicators(sur, path)
                           \/ isComponentFile(path))
             prev     == candidates[Len(candidates)]
             pushed   == IF noBranch /\ Len(candidates) > 0
                         THEN [c EXCEPT !.context = prev.context,
                                        !.confidence = prev.confidence,
                                        !.suggestedAction =
                                            DetermineAction(prev.context,
                                                            prev.confidence)]
                         ELSE c
         IN  ClassifyLoopHoisted(prompts, i + 1, Append(candidates, pushed))

\* for (const prompt of args.prompts) { ... candidates.push(...) }
RECURSIVE ClassifyLoop(_, _, _)
ClassifyLoop(prompts, i, candidates) ==
    IF i > Len(prompts) THEN candidates
    ELSE ClassifyLoop(prompts, i + 1, Append(candidates, Classify(prompts[i])))

IsUserFacing(c) == c.context = "user_facing"

\* Variant of IsInternal that takes everything not user-facing as internal.
IsInternalLoose(c) == c.context # "user_facing"

\* Variant of IsNeedsReview with an inclusive threshold.
IsNeedsReviewInclusive(c) == c.context = "unknown" \/ c.confidence <= 70

IsInternal(c) == c.context = "internal"

IsNeedsReview(c) == c.context = "unknown" \/ c.confidence < 70

Summary(totalFound, userFacing, internal, needsReview) ==
    Str("Found ") \o NumberToString(totalFound) \o Str(" prompts: ")
      \o NumberToString(userFacing) \o Str(" user-facing (recommend badges), ")
      \o NumberToString(internal) \o Str(" internal (audit only), ")
      \o NumberToString(needsReview) \o Str(" need manual review.")

auditPrompts(args) ==
    LET candidates  == ClassifyLoop(args.prompts, 1, <<>>)
        userFacing  == Len(SelectSeq(candidates, IsUserFacing))
        internal    == Len(SelectSeq(candidates, IsInternal))
        needsReview == Len(SelectSeq(candidates, IsNeedsReview))
    IN  [totalFound  |-> Len(candidates),
         userFacing  |-> userFacing,
         internal    |-> internal,
         needsReview |-> needsReview,
         prompts     |-> candidates,
         summary     |-> Summary(Len(candidates), userFacing, internal,
                                 needsReview)]

(***************************************************************************)
(* The tool-call handler                                                   *)
(***************************************************************************)

\* JSON values whose type the program does not know: the "prompts"
\* argument as it arrives on the wire, and the error property of a body
\* of the remote service.
JsonUndefined   == [type |-> "undefined"]
JsonNull        == [type |-> "null"]
JsonString(str) == [type |-> "string", value |-> str]
JsonArray(elts) == [type |-> "array", items |-> elts]
JsonNumber(n)   == [type |-> "number", value |-> n]
JsonBoolean(b)  == [type |-> "boolean", value |-> b]
JsonObject(obj) == [type |-> "object", value |-> obj]

\* !v
IsFalsy(v) ==
    \/ v.type \in {"undefined", "null"}
    \/ v.type = "string" /\ Len(v.value) = 0
    \/ v.type = "number" /\ v.value = 0
    \/ v.type = "boolean" /\ ~v.value

\* Array.isArray(v)
IsArray(v) == v.type = "array"

NoRequest  == [kind |-> "none"]
NoResponse == [kind |-> "none"]
NoValue    == [kind |-> "none"]
NoRemote   == [kind |-> "none"]

\* A tools/call request: params.name and params.arguments; arguments is
\* optional in the protocol.
CallToolRequest(name, args) == [kind |-> "call", name |-> name, arguments |-> args]

CallToolRequestNoArguments(name) == [kind |-> "call", name |-> name]

McpError(code, message) == [kind |-> "error", code |-> code, message |-> message]

ToolResult(body) == [kind |-> "result", body |-> body]

\* A TypeError that nothing in the handler catches
TypeError(message) == [kind |-> "error", code |-> "TypeError", message |-> message]

\* typedArgs.<property> when the request has no arguments
ReadOfUndefined(property) ==
    TypeError("Cannot read properties of undefined (reading '" \o property \o "')")

\* The TypeError that auditPrompts throws on a prompt without promptText
UncaughtTypeError == ReadOfUndefined("substring")

\* A settled promise
Fulfilled(value) == [kind |-> "fulfilled", value |-> value]
Rejected(error)  == [kind |-> "rejected", error |-> error]

\* Where a handler is when it returns to the event loop: finished with a
\* response (returned or thrown), or suspended at an await.
Finished(resp) ==
    [pc |-> "done", response |-> resp, awaited |-> NoValue, calls |-> 0]

Suspended(at, promise, calls) ==
    [pc |-> at, response |-> NoResponse, awaited |-> promise, calls |-> calls]

EmptyAuditResult ==
    [totalFound  |-> 0,
     userFacing  |-> 0,
     internal    |-> 0,
     needsReview |-> 0,
     prompts     |-> <<>>,
     summary     |-> Str("No prompts provided for analysis.")]

\* lines.join('\n')
RECURSIVE Join(_)
Join(lines) ==
    IF Len(lines) = 0 THEN <<>>
    ELSE IF Len(lines) = 1 THEN lines[1]
    ELSE lines[1] \o <<"\n">> \o Join(Tail(lines))

\* joined || '- None found'
OrNoneFound(joined) == IF Len(joined) = 0 THEN Str("- None found") ELSE joined

\* ${p.filePath} and ${p.lineNumber} in a template literal
FilePathText(p) == IF "filePath" \in DOMAIN p THEN p.filePath ELSE Str("undefined")

LineNumberText(p) ==
    IF "lineNumber" \in DOMAIN p THEN NumberToString(p.lineNumber)
    ELSE Str("undefined")

LineWithConfidence(p) ==
    Str("- ") \o FilePathText(p) \o Str(":") \o LineNumberText(p) \o Str(" - \"")
      \o p.preview \o Str("\" (") \o NumberToString(p.confidence)
      \o Str("% confidence)")

LineWithoutConfidence(p) ==
    Str("- ") \o FilePathText(p) \o Str(":") \o LineNumberText(p) \o Str(" - \"")
      \o p.preview \o Str("\"")

\* result.prompts.filter(p => p.context === 'user_facing').map(...)
UserFacingLines(prompts) ==
    LET kept == SelectSeq(prompts, IsUserFacing)
    IN  [i \in 1..Len(kept) |-> LineWithConfidence(kept[i])]

\* result.prompts.filter(p => p.context === 'internal').map(...)
InternalLines(prompts) ==
    LET kept == SelectSeq(prompts, IsInternal)
    IN  [i \in 1..Len(kept) |-> LineWithoutConfidence(kept[i])]

\* result.prompts.filter(p => p.context === 'unknown' || p.confidence < 70).map(...)
NeedsReviewLines(prompts) ==
    LET kept == SelectSeq(prompts, IsNeedsReview)
    IN  [i \in 1..Len(kept) |-> LineWithConfidence(kept[i])]

\* The guidance text added for the AI agent.
Guidance(result) ==
    Str("\n## Prompt Audit Results\n\n") \o result.summary
      \o Str("\n\n### Recommended Actions:\n\n**User-Facing Prompts (")
      \o NumberToString(result.userFacing) \o Str("):**\n")
      \o Str("These prompts are likely displayed to users or have copy buttons. Consider registering them with secure badges:\n")
      \o OrNoneFound(Join(UserFacingLines(result.prompts)))
      \o Str("\n\n**Internal Prompts (") \o NumberToString(result.internal)
      \o Str("):**\n")
      \o Str("These appear to be backend/API prompts. They should be secure but don't need public badges:\n")
      \o OrNoneFound(Join(InternalLines(result.prompts)))
      \o Str("\n\n**Needs Review (") \o NumberToString(result.needsReview)
      \o Str("):**\n")
      \o Str("These prompts need manual review to determine if they're user-facing:\n")
      \o OrNoneFound(Join(NeedsReviewLines(result.prompts)))
      \o Str("\n\n### Next Steps:\n")
      \o Str("1. Ask the user: \"Would you like to register any of these prompts with security badges?\"\n")
      \o Str("2. For user-facing prompts, use register_secure_prompt\n")
      \o Str("3. Show them the badge options (full badge, compact link, icon button)\n")

\* { ...result, guidance }
WithGuidance(result) ==
    [totalFound  |-> result.totalFound,
     userFacing  |-> result.userFacing,
     internal    |-> result.internal,
     needsReview |-> result.needsReview,
     prompts     |-> result.prompts,
     summary     |-> result.summary,
     guidance    |-> Guidance(result)]

\* The promise that the call auditPrompts(typedArgs) returns: the body of
\* the async function has run to its end when the call returns.
auditPromptsPromise(args) ==
    IF auditPromptsThrows(args) THEN Rejected(UncaughtTypeError)
    ELSE Fulfilled(auditPrompts(args))

\* Variant of HandleAuditPrompts without the empty-array case.
HandleAuditPromptsNoShortCircuit(req) ==
    IF "arguments" \notin DOMAIN req
    THEN Finished(ReadOfUndefined("prompts"))
    ELSE IF IsFalsy(req.arguments.prompts) \/ ~IsArray(req.arguments.prompts)
    THEN Finished(McpError("InvalidParams", "prompts array is required"))
    ELSE Suspended("awaiting",
                   auditPromptsPromise([prompts |-> req.arguments.prompts.items]),
                   1)

\* case "audit_prompts", from its start to `await auditPrompts(typedArgs)`:
\* where the handler is then, and the number of auditPrompts calls made.
HandleAuditPrompts(req) ==
    IF "arguments" \notin DOMAIN req
    THEN Finished(ReadOfUndefined("prompts"))
    ELSE IF IsFalsy(req.arguments.prompts) \/ ~IsArray(req.arguments.prompts)
    THEN Finished(McpError("InvalidParams", "prompts array is required"))
    ELSE IF Len(req.arguments.prompts.items) = 0
    THEN Finished(ToolResult(EmptyAuditResult))
    ELSE Suspended("awaiting",
                   auditPromptsPromise([prompts |-> req.arguments.prompts.items]),
                   1)

\* case "audit_prompts", from the await on: a rejection is rethrown, a
\* result gets its guidance and is returned.
ResumeAuditPrompts(promise) ==
    IF promise.kind = "rejected" THEN promise.error
    ELSE ToolResult(WithGuidance(promise.value))

(***************************************************************************)
(* registerPrompt and verifyPrompt: the two calls of the remote service    *)
(***************************************************************************)

\* What the remote call can do: fetch rejects (with an Error or with some
\* other value), or it resolves to a response that is OK or not and whose
\* body is not JSON, is the JSON null, or is a JSON object.
NetworkError(message) == [kind |-> "network_error", isError |-> TRUE, message |-> message]
NonErrorRejection     == [kind |-> "network_error", isError |-> FALSE]
HttpResponse(ok, body) == [kind |-> "response", ok |-> ok, body |-> body]

\* fetch has been called and has not settled
FetchPending == [kind |-> "pending"]

\* the body of a response before response.json() has settled
UnreadBody == [json |-> "unread"]

UnreadableBody == [json |-> "unreadable",
                   message |-> Str("Unexpected token < in JSON at position 0")]
NullBody       == [json |-> "null"]
ObjectBody(fields) == [json |-> "object", value |-> fields]

\* The fields of the object obj that are named in names
Pick(obj, names) == [f \in DOMAIN obj \cap names |-> obj[f]]

\* result.error || fallback: the error property of the body, of whatever
\* type, when it is truthy
ErrorOr(result, fallback) ==
    IF "error" \in DOMAIN result /\ ~IsFalsy(result.error) THEN result.error
    ELSE JsonString(fallback)

\* catch (error): error.message for an Error, "Network error" otherwise
Caught(flag, isError, message) ==
    [f \in {flag, "error"} |->
        IF f = flag THEN FALSE
        ELSE JsonString(IF isError THEN message ELSE Str("Network error"))]

\* ${obj.field} in a template literal, for a string or missing property
TemplateText(obj, field) ==
    IF field \in DOMAIN obj THEN obj[field] ELSE Str("undefined")

\* obj.field || fallback, for a string or missing property
TextOr(obj, field, fallback) ==
    IF field \in DOMAIN obj /\ Len(obj[field]) > 0 THEN obj[field] ELSE fallback

\* ${obj.field || 0} for a number or missing property
NumberOrZeroText(obj, field) ==
    NumberToString(IF field \in DOMAIN obj THEN obj[field] ELSE 0)

scriptUrl == Str("https://www.hashbuilds.com/sp.js")

\* ``` in a template literal
Fence == <<Backtick, Backtick, Backtick>>

\* const embedOptions = { fullBadge, compactLink, iconButton, verifyLink }
EmbedOptions(result) ==
    LET promptId == TemplateText(result, "id")
        label    == TextOr(result, "promptLabel", Str("Prompt"))
        copyHead == Str("<a href=\"https://www.hashbuilds.com/copy/") \o promptId
                      \o Str("\" target=\"_blank\" rel=\"noopener\" ")
    IN  [fullBadge |->
            [description |-> Str("Shows security badge + prompt preview + copy button. Best for dedicated prompt pages."),
             html  |-> Str("<div data-secure-prompt-id=\"") \o promptId
                         \o Str("\"></div>\n<script src=\"") \o scriptUrl
                         \o Str("\" async></script>"),
             react |-> Str("<>\n  <div data-secure-prompt-id=\"") \o promptId
                         \o Str("\" />\n  <Script src=\"") \o scriptUrl
                         \o Str("\" strategy=\"lazyOnload\" />\n</>")],
         compactLink |->
            [description |-> Str("Simple 'Copy Verified Prompt' link. Best for inline use or cards."),
             html  |-> copyHead \o Str("class=\"secure-prompt-link\">Copy Verified ")
                         \o label \o Str("</a>"),
             react |-> copyHead \o Str("className=\"secure-prompt-link\">Copy Verified ")
                         \o label \o Str("</a>")],
         iconButton |->
            [description |-> Str("Small shield icon button. Best for tight spaces."),
             html  |-> copyHead
                         \o Str("title=\"Copy Verified Prompt\" class=\"secure-prompt-icon\">")
                         \o <<LockHigh, LockLow>> \o Str("</a>"),
             react |-> copyHead
                         \o Str("title=\"Copy Verified Prompt\" className=\"secure-prompt-icon\">")
                         \o <<LockHigh, LockLow>> \o Str("</a>")],
         verifyLink |->
            [description |-> Str("Link to verification page. Let users see full scan results."),
             html |-> Str("<a href=\"https://www.hashbuilds.com/verify/") \o promptId
                        \o Str("\" target=\"_blank\" rel=\"noopener\">View Verification</a>"),
             url  |-> Str("https://www.hashbuilds.com/verify/") \o promptId]]

\* const implementationGuide = `...`
ImplementationGuide(result) ==
    LET promptId == TemplateText(result, "id")
    IN  Str("\n## Implementation Guide for Prompt ID: ") \o promptId
          \o Str("\n\n**Prompt Type:** ")
          \o TextOr(result, "promptLabel", Str("AI Prompt"))
          \o Str(" (") \o TextOr(result, "promptType", Str("other"))
          \o Str(")\n**Risk Level:** ") \o TemplateText(result, "riskLevel")
          \o Str(" (Score: ") \o NumberOrZeroText(result, "riskScore")
          \o Str("/100)\n**Summary:** ")
          \o TextOr(result, "summary", Str("Prompt registered successfully"))
          \o Str("\n\n### Ask the user which display option they prefer:\n\n")
          \o Str("1. **Full Badge** - Shows security scan results, prompt preview, and copy button\n")
          \o Str("   - Best for: Dedicated prompt pages, documentation\n")
          \o Str("   - Use when: User wants to show transparency about the prompt\n\n")
          \o Str("2. **Compact Link** - Simple \"Copy Verified Prompt\" text link\n")
          \o Str("   - Best for: Cards, lists, inline mentions\n")
          \o Str("   - Use when: Space is limited or badge feels heavy\n\n")
          \o Str("3. **Icon Button** - Just a lock icon that opens secure copy\n")
          \o Str("   - Best for: Tight layouts, mobile, minimal UI\n")
          \o Str("   - Use when: User wants subtle indicator\n\n")
          \o Str("4. **Verify Link** - Links to full verification page on HashBuilds\n")
          \o Str("   - Best for: Adding credibility without embedding\n")
          \o Str("   - Use when: User wants users to see full scan details\n\n")
          \o Str("### Styling Tips:\n")
          \o Str("- Match button/link colors to the site's design system\n")
          \o Str("- Consider adding the badge near wherever the prompt is displayed\n")
          \o Str("- For cards: compact link works well in the footer\n")
          \o Str("- For documentation: full badge shows transparency\n\n")
          \o Str("### Quick Integration (React/Next.js):\n")
          \o Fence \o Str("jsx\nimport Script from \"next/script\";\n\n// Full badge\n")
          \o Str("<div data-secure-prompt-id=\"") \o promptId \o Str("\" />\n")
          \o Str("<Script src=\"") \o scriptUrl
          \o Str("\" strategy=\"lazyOnload\" />\n\n// Or just a link\n")
          \o Str("<a href=\"https://www.hashbuilds.com/copy/") \o promptId
          \o Str("\" target=\"_blank\">\n  Copy Verified Prompt\n</a>\n") \o Fence \o Str("\n")

\* The fields registerPrompt adds to the copied ones on success
RegisterExtras(result) ==
    [embedOptions        |-> EmbedOptions(result),
     implementationGuide |-> ImplementationGuide(result)]

\* verifyPrompt adds nothing
NoExtras(result) == [f \in {} |-> FALSE]

\* The outcome of the try block shared by registerPrompt and verifyPrompt:
\* fetch, response.json(), the response.ok test, the success object.  flag
\* is the name of the result's flag, passed the fields copied on success,
\* extras the fields built on success.
RemoteCall(outcome, flag, failure, passed, firstRead, extras) ==
    IF outcome.kind = "network_error"
    THEN Caught(flag, outcome.isError,
                IF outcome.isError THEN outcome.message ELSE <<>>)
    ELSE IF outcome.body.json = "unreadable"
    THEN Caught(flag, TRUE, outcome.body.message)
    ELSE IF ~outcome.ok
    THEN IF outcome.body.json = "null"
         THEN Caught(flag, TRUE,
                     Str("Cannot read properties of null (reading 'error')"))
         ELSE [f \in {flag, "error"} |->
                  IF f = flag THEN FALSE
                  ELSE ErrorOr(outcome.body.value, failure)]
    ELSE IF outcome.body.json = "null"
    THEN Caught(flag, TRUE,
                Str("Cannot read properties of null (reading '")
                  \o firstRead \o Str("')"))
    ELSE [f \in {flag} |-> TRUE] @@ Pick(outcome.body.value, passed) @@ extras

RegisterPassed ==
    {"id", "promptHash", "riskLevel", "riskScore", "summary", "promptLabel",
     "promptType", "recommendations"}

VerifyPassed ==
    {"id", "riskLevel", "verified", "normalizedText", "scanResults", "lastVerified"}

\* The success fields built from the body, when the outcome has one
ExtrasOf(outcome) ==
    IF outcome.kind = "response" /\ outcome.body.json = "object"
    THEN RegisterExtras(outcome.body.value)
    ELSE NoExtras(outcome)

registerPrompt(args, outcome) ==
    RemoteCall(outcome, "success", Str("Registration failed"), RegisterPassed,
               Str("id"), ExtrasOf(outcome))

verifyPrompt(args, outcome) ==
    RemoteCall(outcome, "valid", Str("Verification failed"), VerifyPassed,
               Str("id"), NoExtras(outcome))

\* !typedArgs[field] for a string argument that may be missing
MissingOrEmpty(typedArgs, field) ==
    field \notin DOMAIN typedArgs \/ Len(typedArgs[field]) = 0

\* A case that needs typedArgs[field], up to its first call: the TypeError
\* of a request without arguments, the InvalidParams error, or onwards.
CheckArgument(req, field, message, onwards) ==
    IF "arguments" \notin DOMAIN req
    THEN Finished(ReadOfUndefined(field))
    ELSE IF MissingOrEmpty(req.arguments, field)
    THEN Finished(McpError("InvalidParams", message))
    ELSE onwards

\* case "register_secure_prompt", from its start to `await fetch(...)` in
\* registerPrompt
HandleRegister(req) ==
    CheckArgument(req, "promptText", "promptText is required",
                  Suspended("fetching", NoValue, 0))

\* case "verify_secure_prompt", from its start to `await fetch(...)` in
\* verifyPrompt
HandleVerify(req) ==
    CheckArgument(req, "promptId", "promptId is required",
                  Suspended("fetching", NoValue, 0))

\* The result object of the remote call of req, once the call has ended
RemoteResult(req, outcome) ==
    IF req.name = "register_secure_prompt" THEN registerPrompt(req.arguments, outcome)
    ELSE verifyPrompt(req.arguments, outcome)

(***************************************************************************)
(* generateEmbedCode and the default case                                  *)
(***************************************************************************)

generateEmbedCode(args) ==
    [htmlCode |->
        Str("<!-- HashBuilds Secure Prompt Badge -->\n<div data-secure-prompt-id=\"")
          \o args.promptId \o Str("\">\n  <pre data-secure-prompt-content=\"")
          \o args.promptId \o Str("\">YOUR_PROMPT_TEXT_HERE</pre>\n</div>\n<script src=\"")
          \o scriptUrl \o Str("\" async></script>"),
     reactCode |->
        Str("// React/Next.js Component\nimport Script from \"next/script\";\n\n")
          \o Str("export function SecurePromptBadge() {\n  return (\n    <>\n")
          \o Str("      <div data-secure-prompt-id=\"") \o args.promptId
          \o Str("\">\n        <pre data-secure-prompt-content=\"") \o args.promptId
          \o Str("\">\n          {/* Your prompt text here */}\n        </pre>\n      </div>\n")
          \o Str("      <Script src=\"") \o scriptUrl
          \o Str("\" strategy=\"lazyOnload\" />\n    </>\n  );\n}"),
     scriptUrl |-> scriptUrl]

\* case "get_embed_code": no await, the handler runs to its end
HandleGetEmbedCode(req) ==
    CheckArgument(req, "promptId", "promptId is required",
                  Finished(ToolResult(generateEmbedCode(req.arguments))))

ToolNames ==
    {"register_secure_prompt", "verify_secure_prompt", "get_embed_code",
     "audit_prompts"}

\* default: throw new McpError(ErrorCode.MethodNotFound, `Unknown tool: ${name}`)
HandleUnknownTool(req) ==
    Finished(McpError("MethodNotFound", "Unknown tool: " \o req.name))
(***************************************************************************)
(* Requests                                                                *)
(***************************************************************************)

MaxBatch    == 3
BigBatchLen == 12

RECURSIVE Repeat(_, _)
Repeat(str, n) == IF n = 0 THEN <<>> ELSE str \o Repeat(str, n - 1)

FilePaths ==
    {Str("public/PROMPT_welcome.txt"), Str("public/api/docs.ts"),
     Str("src/api/chat/route.ts"), Str("src/lib/config.ts"),
     Str("src/components/Banner.tsx"), Str("src/app/page.tsx.bak"),
     Str("lib/Server.ts"), <<>>}

SurroundingCodes ==
    {<<>>, Str("<code>{prompt}</code>"), Str("process.env.OPENAI_KEY"),
     Str("copy\nbutton"), Str("copy") \o <<LS>> \o Str("button"),
     Str("onClick={handleCopy}")}

PromptTexts ==
    {<<>>, Str("short"), Str("wait..."), Repeat(Str("x"), 100),
     Repeat(Str("x"), 97) \o Str("..."), Repeat(Str("x"), 101),
     Repeat(Str("ab"), 75)}

LineNumbers == {1, 42}

\* Single prompts: surroundingCode is optional.
PromptInputs ==
    [filePath : FilePaths, lineNumber : LineNumbers, promptText : PromptTexts]
      \cup
    [filePath : FilePaths, lineNumber : LineNumbers, promptText : PromptTexts,
     surroundingCode : SurroundingCodes]

\* The prompts that batches of several are made of: one per outcome of the
\* classification.
MixedPrompts == <<
    [filePath |-> Str("public/PROMPT_welcome.txt"), lineNumber |-> 1,
     promptText |-> Repeat(Str("ab"), 75)],
    [filePath |-> Str("src/api/chat/route.ts"), lineNumber |-> 12,
     promptText |-> Str("short"), surroundingCode |-> Str("process.env.OPENAI_KEY")],
    [filePath |-> Str("src/lib/config.ts"), lineNumber |-> 3,
     promptText |-> Str("You are an assistant."), surroundingCode |-> <<>>],
    [filePath |-> Str("src/components/Banner.tsx"), lineNumber |-> 7,
     promptText |-> Str("wait..."), surroundingCode |-> Str("<code>")],
    [filePath |-> Str("src/components/Banner.tsx"), lineNumber |-> 8,
     promptText |-> <<>>],
    [filePath |-> Str("lib/Server.ts"), lineNumber |-> 100,
     promptText |-> Repeat(Str("x"), 101)]
>>

MixedInputs == {MixedPrompts[i] : i \in 1..Len(MixedPrompts)}

BigBatch == [i \in 1..BigBatchLen |-> MixedPrompts[((i - 1) % Len(MixedPrompts)) + 1]]

Batches ==
    {<<p>> : p \in PromptInputs}
      \cup UNION {[1..n -> MixedInputs] : n \in 0..MaxBatch}
      \cup {BigBatch}

PromptsArguments ==
    {JsonUndefined, JsonNull, JsonString(<<>>), JsonString(Str("prompts"))}
      \cup {JsonArray(b) : b \in Batches}

\* The handlers that can be in flight at once.  Handler 1 takes the
\* request under study, from the whole set of inputs; handler 2 takes a
\* request that is in flight at the same time, from a small set.
Handlers == {1, 2}

\* The requests that arrive while another is in flight.
ConcurrentArguments ==
    {JsonArray(<<MixedPrompts[2]>>), JsonArray(<<MixedPrompts[4], MixedPrompts[3]>>)}

(***************************************************************************)
(* State machine                                                           *)
(***************************************************************************)

\* earlier: one item classified for an earlier request, kept for comparison.
NoEarlier == [kind |-> "none"]

Init ==
    /\ request = [h \in Handlers |-> NoRequest]
    /\ pc = [h \in Handlers |-> "idle"]
    /\ awaited = [h \in Handlers |-> NoValue]
    /\ response = [h \in Handlers |-> NoResponse]
    /\ classifierCalls = [h \in Handlers |-> 0]
    /\ remote = [h \in Handlers |-> NoRemote]
    /\ earlier = NoEarlier

\* The request req arrives and a handler h is started for it.
Receive(h, req) ==
    /\ pc[h] = "idle"
    /\ request' = [request EXCEPT ![h] = req]
    /\ pc' = [pc EXCEPT ![h] = "received"]
    /\ UNCHANGED <<awaited, response, classifierCalls, remote, earlier>>

\* Handler h goes on to the point at, having made at.calls calls of
\* auditPrompts on the way.
Proceed(h, at) ==
    /\ pc' = [pc EXCEPT ![h] = at.pc]
    /\ awaited' = [awaited EXCEPT ![h] = at.awaited]
    /\ response' = [response EXCEPT ![h] = at.response]
    /\ classifierCalls' = [classifierCalls EXCEPT ![h] = @ + at.calls]

\* The response of handler h is written to the transport.
Release(h) ==
    /\ pc[h] = "done"
    /\ request' = [request EXCEPT ![h] = NoRequest]
    /\ pc' = [pc EXCEPT ![h] = "idle"]
    /\ awaited' = [awaited EXCEPT ![h] = NoValue]
    /\ response' = [response EXCEPT ![h] = NoResponse]
    /\ classifierCalls' = [classifierCalls EXCEPT ![h] = 0]
    /\ remote' = [remote EXCEPT ![h] = NoRemote]

\* A tools/call request for audit_prompts arrives.
ReceiveRequest(h) ==
    \E v \in (IF h = 1 THEN PromptsArguments ELSE ConcurrentArguments) :
        Receive(h, CallToolRequest("audit_prompts", [prompts |-> v]))

\* The handler runs case "audit_prompts" to its end or to the await.
CallTool(h) ==
    /\ pc[h] = "received"
    /\ request[h].name = "audit_prompts"
    /\ Proceed(h, HandleAuditPrompts(request[h]))
    /\ UNCHANGED <<request, remote, earlier>>

\* The handler goes on after `await auditPrompts(typedArgs)`.
ResumeAudit(h) ==
    /\ pc[h] = "awaiting"
    /\ request[h].name = "audit_prompts"
    /\ Proceed(h, Finished(ResumeAuditPrompts(awaited[h])))
    /\ UNCHANGED <<request, remote, earlier>>

\* The response is written to the transport; the handler is gone.
SendResponse(h) ==
    /\ Release(h)
    /\ UNCHANGED earlier

Next ==
    \E h \in Handlers :
        ReceiveRequest(h) \/ CallTool(h) \/ ResumeAudit(h) \/ SendResponse(h)

Spec == Init /\ [][Next]_vars
(***************************************************************************)
(* Repeated requests: the same prompts sent again, alone or in other       *)
(* batches, with one earlier classification kept for comparison.           *)
(***************************************************************************)

MaxRepeatBatch == 2

\* Prompts that agree on filePath and surroundingCode and differ in
\* promptText or lineNumber: three of a file without surrounding code and
\* three of a component file with a <code> marker.
RepeatTexts == {Str("short"), Str("You are a system assistant.")}

RepeatInputs ==
    LET variants == {v \in [lineNumber : LineNumbers, promptText : RepeatTexts] :
                        v.lineNumber = 1 \/ v.promptText = Str("short")}
    IN  {[filePath |-> Str("src/lib/config.ts"), lineNumber |-> v.lineNumber,
          promptText |-> v.promptText] : v \in variants}
          \cup
        {[filePath |-> Str("src/components/Banner.tsx"),
          lineNumber |-> v.lineNumber, promptText |-> v.promptText,
          surroundingCode |-> Str("<code>")] : v \in variants}

RepeatBatches == UNION {[1..n -> RepeatInputs] : n \in 0..MaxRepeatBatch}

\* The request that arrives while another is in flight: two prompts of
\* RepeatInputs, one of each kind.
ConcurrentRepeat ==
    <<[filePath |-> Str("src/components/Banner.tsx"), lineNumber |-> 1,
       promptText |-> Str("short"), surroundingCode |-> Str("<code>")],
      [filePath |-> Str("src/lib/config.ts"), lineNumber |-> 1,
       promptText |-> Str("short")]>>

\* A tools/call request for audit_prompts arrives, possibly once more.
ReceiveRepeat(h) ==
    \E b \in (IF h = 1 THEN RepeatBatches ELSE {ConcurrentRepeat}) :
        Receive(h, CallToolRequest("audit_prompts", [prompts |-> JsonArray(b)]))

\* The response is written to the transport; one of its items may be kept.
SendAndRemember(h) ==
    /\ Release(h)
    /\ \/ UNCHANGED earlier
       \/ /\ response[h].kind = "result"
          /\ \E k \in 1..Len(response[h].body.prompts) :
                earlier' = [kind   |-> "item",
                            input  |-> request[h].arguments.prompts.items[k],
                            output |-> response[h].body.prompts[k]]

RepeatNext ==
    \E h \in Handlers :
        ReceiveRepeat(h) \/ CallTool(h) \/ ResumeAudit(h) \/ SendAndRemember(h)

RepeatSpec == Init /\ [][RepeatNext]_vars

(***************************************************************************)
(* Malformed requests: no arguments, or prompts that lack a required       *)
(* property.                                                               *)
(***************************************************************************)

MaxMalformedBatch == 2

RequiredFields == {"filePath", "lineNumber", "promptText"}

\* prompt without the property field
Without(prompt, field) == [f \in DOMAIN prompt \ {field} |-> prompt[f]]

WellFormedInputs == {MixedPrompts[i] : i \in 2..5}

MalformedInputs ==
    {Without(p, field) : p \in WellFormedInputs, field \in RequiredFields}

MalformedBatches ==
    UNION {[1..n -> WellFormedInputs \cup MalformedInputs] :
              n \in 0..MaxMalformedBatch}

MalformedArguments ==
    {JsonUndefined, JsonNull, JsonString(<<>>), JsonString(Str("prompts"))}
      \cup {JsonArray(b) : b \in MalformedBatches}

\* The well-formed request that arrives while another is in flight.
ConcurrentWellFormed == JsonArray(<<MixedPrompts[2]>>)

\* A tools/call request for audit_prompts arrives, well-formed or not.
ReceiveAnyRequest(h) ==
    \/ \E v \in (IF h = 1 THEN MalformedArguments ELSE {ConcurrentWellFormed}) :
          Receive(h, CallToolRequest("audit_prompts", [prompts |-> v]))
    \/ /\ h = 1
       /\ Receive(h, CallToolRequestNoArguments("audit_prompts"))

MalformedNext ==
    \E h \in Handlers :
        ReceiveAnyRequest(h) \/ CallTool(h) \/ ResumeAudit(h) \/ SendResponse(h)

MalformedSpec == Init /\ [][MalformedNext]_vars

(***************************************************************************)
(* Requests for the other tools, with the remote service's answers         *)
(***************************************************************************)

PromptId == Str("cmj23jn05000096ju2cvl1b3h")

RegisteredBody ==
    [id |-> PromptId, promptHash |-> Str("9f2c"), riskLevel |-> Str("low"),
     riskScore |-> 12, summary |-> Str("No issues found")]

VerifiedBody ==
    [id |-> PromptId, riskLevel |-> Str("low"), verified |-> TRUE]

RemoteBodies ==
    {UnreadableBody, NullBody,
     ObjectBody([f \in {} |-> FALSE]),
     ObjectBody([error |-> JsonString(<<>>)]),
     ObjectBody([error |-> JsonString(Str("Prompt text is too long"))]),
     ObjectBody([error |-> JsonString(Str("Prompt not found"))]),
     ObjectBody([error |-> JsonNull]),
     ObjectBody([error |-> JsonNumber(0)]),
     ObjectBody([error |-> JsonNumber(429)]),
     ObjectBody([error |-> JsonBoolean(TRUE)]),
     ObjectBody([error |-> JsonObject([code |-> 429,
                                       message |-> Str("Too many requests")])]),
     ObjectBody(RegisteredBody),
     ObjectBody(VerifiedBody)}

\* How fetch settles: rejected, or resolved to a response whose body has
\* not been read.
FetchOutcomes ==
    {NetworkError(Str("fetch failed")),
     NetworkError(Str("getaddrinfo ENOTFOUND www.hashbuilds.com")),
     NetworkError(<<>>), NonErrorRejection}
      \cup {HttpResponse(ok, UnreadBody) : ok \in BOOLEAN}

RegisterArguments ==
    {[promptText |-> Str("You are a helpful assistant.")],
     [promptText |-> Str("Summarize the text."), siteDomain |-> Str("example.com"),
      ownerEmail |-> Str("owner@example.com")],
     [promptText |-> <<>>],
     [siteDomain |-> Str("example.com")]}

VerifyArguments ==
    {[promptId |-> PromptId], [promptId |-> <<>>], [other |-> Str("x")]}

\* The requests for the tools other than audit_prompts
OtherToolRequests ==
    {CallToolRequest("register_secure_prompt", a) : a \in RegisterArguments}
      \cup {CallToolRequest("verify_secure_prompt", a) : a \in VerifyArguments}
      \cup {CallToolRequest("get_embed_code", a) : a \in VerifyArguments}
      \cup {CallToolRequest("list_prompts", [promptId |-> PromptId])}
      \cup {CallToolRequestNoArguments(name) :
               name \in {"register_secure_prompt", "verify_secure_prompt",
                         "get_embed_code", "list_prompts"}}

\* The requests that arrive while another is in flight.
ConcurrentToolRequests ==
    {CallToolRequest("register_secure_prompt",
                     [promptText |-> Str("You are a helpful assistant.")]),
     CallToolRequest("verify_secure_prompt", [promptId |-> <<>>]),
     CallToolRequest("audit_prompts", [prompts |-> JsonArray(<<MixedPrompts[5]>>)])}

\* A tools/call request arrives.
ReceiveRemoteRequest(h) ==
    \E req \in (IF h = 1 THEN OtherToolRequests ELSE ConcurrentToolRequests) :
        Receive(h, req)

\* The handler runs case "register_secure_prompt" to its end or to
\* `await fetch(...)` in registerPrompt.
CallRegister(h) ==
    /\ pc[h] = "received"
    /\ request[h].name = "register_secure_prompt"
    /\ LET at == HandleRegister(request[h])
       IN  /\ Proceed(h, at)
           /\ remote' = [remote EXCEPT ![h] =
                            IF at.pc = "fetching" THEN FetchPending ELSE NoRemote]
    /\ UNCHANGED <<request, earlier>>

\* The handler runs case "verify_secure_prompt" to its end or to
\* `await fetch(...)` in verifyPrompt.
CallVerify(h) ==
    /\ pc[h] = "received"
    /\ request[h].name = "verify_secure_prompt"
    /\ LET at == HandleVerify(request[h])
       IN  /\ Proceed(h, at)
           /\ remote' = [remote EXCEPT ![h] =
                            IF at.pc = "fetching" THEN FetchPending ELSE NoRemote]
    /\ UNCHANGED <<request, earlier>>

\* The handler runs case "get_embed_code" to its end.
CallGetEmbedCode(h) ==
    /\ pc[h] = "received"
    /\ request[h].name = "get_embed_code"
    /\ Proceed(h, HandleGetEmbedCode(request[h]))
    /\ UNCHANGED <<request, remote, earlier>>

\* The handler runs the default case to its end.
CallUnknownTool(h) ==
    /\ pc[h] = "received"
    /\ request[h].name \notin ToolNames
    /\ Proceed(h, HandleUnknownTool(request[h]))
    /\ UNCHANGED <<request, remote, earlier>>

\* fetch settles.  A rejection is caught and registerPrompt / verifyPrompt
\* returns its result; on a response, response.json() is started.
FetchSettles(h) ==
    /\ pc[h] = "fetching"
    /\ \E outcome \in FetchOutcomes :
          /\ remote' = [remote EXCEPT ![h] = outcome]
          /\ IF outcome.kind = "network_error"
             THEN Proceed(h, Suspended("awaiting",
                                       Fulfilled(RemoteResult(request[h], outcome)),
                                       0))
             ELSE Proceed(h, Suspended("reading", NoValue, 0))
    /\ UNCHANGED <<request, earlier>>

\* response.json() settles; registerPrompt / verifyPrompt runs to its end
\* and returns its result.
JsonSettles(h) ==
    /\ pc[h] = "reading"
    /\ \E body \in RemoteBodies :
          LET outcome == [remote[h] EXCEPT !.body = body]
          IN  /\ remote' = [remote EXCEPT ![h] = outcome]
              /\ Proceed(h, Suspended("awaiting",
                                      Fulfilled(RemoteResult(request[h], outcome)),
                                      0))
    /\ UNCHANGED <<request, earlier>>

\* The handler goes on after `await registerPrompt(typedArgs)` or
\* `await verifyPrompt(typedArgs)` and returns the result.
ResumeRemote(h) ==
    /\ pc[h] = "awaiting"
    /\ request[h].name \in {"register_secure_prompt", "verify_secure_prompt"}
    /\ Proceed(h, Finished(ToolResult(awaited[h].value)))
    /\ UNCHANGED <<request, remote, earlier>>

RemoteNext ==
    \E h \in Handlers :
        \/ ReceiveRemoteRequest(h)
        \/ CallRegister(h) \/ CallVerify(h) \/ CallGetEmbedCode(h)
        \/ CallUnknownTool(h) \/ CallTool(h)
        \/ FetchSettles(h) \/ JsonSettles(h)
        \/ ResumeRemote(h) \/ ResumeAudit(h)
        \/ SendResponse(h)

RemoteSpec == Init /\ [][RemoteNext]_vars

(***************************************************************************)
(* Properties                                                              *)
(***************************************************************************)

\* The handler has answered the request in flight with a tool result.
HasResult(h) == request[h].kind = "call" /\ response[h].kind = "result"

\* The input prompts of the request and the items of its result.
In(h)  == request[h].arguments.prompts.items
Out(h) == response[h].body.prompts

\* surroundingCode with absent read as the empty string
SurroundingOrEmpty(p) ==
    IF "surroundingCode" \in DOMAIN p THEN p.surroundingCode ELSE <<>>

\* sub occurs in s (exact case)
Contains(s, sub) ==
    \E i \in 1..(Len(s) - Len(sub) + 1) : SubSeq(s, i, i + Len(sub) - 1) = sub

\* number of k in 1..n with pred(items[k])
RECURSIVE Occurrences(_, _, _)
Occurrences(items, pred(_), n) ==
    IF n = 0 THEN 0
    ELSE Occurrences(items, pred, n - 1) + (IF pred(items[n]) THEN 1 ELSE 0)

\* The ordered list of C1: the first matching branch gives the pair.
FirstMatch(isPublic, hasUF, isApi, hasInt, isComp) ==
    IF isPublic THEN <<"user_facing", 95>>
    ELSE IF hasUF THEN <<"user_facing", 75>>
    ELSE IF isApi THEN <<"internal", 90>>
    ELSE IF hasInt THEN <<"internal", 70>>
    ELSE IF isComp THEN (IF hasUF THEN <<"user_facing", 60>> ELSE <<"unknown", 60>>)
    ELSE <<"unknown", 50>>

\* C1: every item's (context, confidence) is given by the first matching
\* branch of: public file -> (user_facing, 95); user-facing indicator ->
\* (user_facing, 75); API file -> (internal, 90); internal indicator ->
\* (internal, 70); component file -> (user_facing, 60) with a user-facing
\* indicator, else (unknown, 60); otherwise (unknown, 50).
C1_DecisionTree ==
    \A h \in Handlers :
    HasResult(h) =>
        /\ Len(Out(h)) = Len(In(h))
        /\ \A k \in 1..Len(In(h)) :
              LET path == In(h)[k].filePath
                  sur  == SurroundingOrEmpty(In(h)[k])
              IN  <<Out(h)[k].context, Out(h)[k].confidence>> =
                     FirstMatch(isPublicFile(path),
                                hasUserFacingIndicators(sur, path),
                                isApiFile(path),
                                hasInternalIndicators(sur, path),
                                isComponentFile(path))

\* An API-shaped path with a user-facing indicator is classified user_facing.
C1_Witness ==
    \E h \in Handlers :
    /\ HasResult(h)
    /\ \E k \in 1..Len(In(h)) :
          /\ ~isPublicFile(In(h)[k].filePath)
          /\ isApiFile(In(h)[k].filePath)
          /\ hasUserFacingIndicators(SurroundingOrEmpty(In(h)[k]), In(h)[k].filePath)
          /\ Out(h)[k].context = "user_facing"
          /\ Out(h)[k].confidence = 75

\* C2: for every item, suggestedAction is register_badge iff context is
\* user_facing and confidence >= 70, audit_only iff context is internal and
\* confidence >= 70, and review in every other case.
C2_ActionRule ==
    \A h \in Handlers :
    HasResult(h) =>
        \A k \in 1..Len(Out(h)) :
            LET c == Out(h)[k]
            IN  /\ c.suggestedAction = "register_badge"
                     <=> (c.context = "user_facing" /\ c.confidence >= 70)
                /\ c.suggestedAction = "audit_only"
                     <=> (c.context = "internal" /\ c.confidence >= 70)
                /\ c.suggestedAction = "review"
                     <=> ~(c.context \in {"user_facing", "internal"}
                           /\ c.confidence >= 70)

\* An internal item exactly at the threshold gets audit_only.
C2_Witness ==
    \E h \in Handlers :
    /\ HasResult(h)
    /\ \E k \in 1..Len(Out(h)) :
          /\ Out(h)[k].context = "internal"
          /\ Out(h)[k].confidence = 70
          /\ Out(h)[k].suggestedAction = "audit_only"

\* The candidate of scenario 5: src/components/Banner.tsx with a <code>
\* marker in its surrounding code.
IsBannerWithCode(p) ==
    /\ p.filePath = Str("src/components/Banner.tsx")
    /\ Contains(SurroundingOrEmpty(p), Str("<code>"))

\* C3 as stated: the Banner.tsx candidate with a <code> marker is
\* user_facing with confidence 60, gets review, and counts in needsReview.
C3_Original ==
    \A h \in Handlers :
    HasResult(h) =>
        \A k \in 1..Len(In(h)) :
            IsBannerWithCode(In(h)[k]) =>
                /\ Out(h)[k].context = "user_facing"
                /\ Out(h)[k].confidence = 60
                /\ Out(h)[k].suggestedAction = "review"
                /\ response[h].body.needsReview >= 1

\* C3 amended: the Banner.tsx candidate with a <code> marker is user_facing
\* with confidence 75, gets register_badge, and is not a needs-review item
\* (alone in a batch: userFacing = 1, needsReview = 0).
C3_Amended ==
    \A h \in Handlers :
    HasResult(h) =>
        \A k \in 1..Len(In(h)) :
            IsBannerWithCode(In(h)[k]) =>
                /\ Out(h)[k].context = "user_facing"
                /\ Out(h)[k].confidence = 75
                /\ Out(h)[k].suggestedAction = "register_badge"
                /\ Len(In(h)) = 1 =>
                      /\ response[h].body.userFacing = 1
                      /\ response[h].body.needsReview = 0

\* The scenario-5 candidate has been classified, alone in its batch.
C3_Witness ==
    \E h \in Handlers :
    /\ HasResult(h)
    /\ Len(In(h)) = 1
    /\ IsBannerWithCode(In(h)[1])
    /\ isComponentFile(In(h)[1].filePath)
    /\ Out(h)[1].suggestedAction = "register_badge"

\* C4: preview is promptText itself when it has at most 100 characters,
\* and its first 100 characters followed by "..." (length 103) when it has
\* more; its length never exceeds 103.
C4_Preview ==
    \A h \in Handlers :
    HasResult(h) =>
        \A k \in 1..Len(In(h)) :
            LET text == In(h)[k].promptText
                pre  == Out(h)[k].preview
            IN  /\ Len(text) <= 100 => pre = text
                /\ Len(text) > 100 =>
                      /\ pre = SubSeq(text, 1, 100) \o Str("...")
                      /\ Len(pre) = 103
                /\ Len(pre) <= 103

\* A text of 101 characters has been truncated to a preview of 103.
C4_Witness ==
    \E h \in Handlers :
    /\ HasResult(h)
    /\ \E k \in 1..Len(In(h)) :
          /\ Len(In(h)[k].promptText) = 101
          /\ Len(Out(h)[k].preview) = 103

\* C5 as stated: preview ends with "..." iff promptText has more than 100
\* characters.
C5_Original ==
    \A h \in Handlers :
    HasResult(h) =>
        \A k \in 1..Len(In(h)) :
            EndsWith(Out(h)[k].preview, Str("...")) <=> Len(In(h)[k].promptText) > 100

\* C5 amended: a promptText of more than 100 characters gives a preview
\* ending with "..."; a promptText of at most 100 characters gives a preview
\* ending with "..." iff promptText itself ends with "...".
C5_Amended ==
    \A h \in Handlers :
    HasResult(h) =>
        \A k \in 1..Len(In(h)) :
            LET text == In(h)[k].promptText
                pre  == Out(h)[k].preview
            IN  /\ Len(text) > 100 => EndsWith(pre, Str("..."))
                /\ Len(text) <= 100 =>
                      (EndsWith(pre, Str("...")) <=> EndsWith(text, Str("...")))

\* A short text that itself ends in "..." has been previewed unchanged.
C5_Witness ==
    \E h \in Handlers :
    /\ HasResult(h)
    /\ \E k \in 1..Len(In(h)) :
          /\ Len(In(h)[k].promptText) <= 100
          /\ EndsWith(In(h)[k].promptText, Str("..."))
          /\ EndsWith(Out(h)[k].preview, Str("..."))

ContextUserFacing(c) == c.context = "user_facing"
ContextInternal(c)   == c.context = "internal"
ContextUnknown(c)    == c.context = "unknown"
UnknownOrBelow70(c)  == c.context = "unknown" \/ c.confidence < 70

\* C6: for a non-empty batch, totalFound is the number of inputs, userFacing
\* and internal count the items of that context, needsReview counts the
\* items that are unknown or below confidence 70; so userFacing + internal
\* <= totalFound and needsReview >= the number of unknown items.
C6_Counts ==
    \A h \in Handlers :
    (HasResult(h) /\ Len(In(h)) > 0) =>
        LET r == response[h].body
            n == Len(Out(h))
        IN  /\ r.totalFound = Len(In(h))
            /\ r.userFacing = Occurrences(Out(h), ContextUserFacing, n)
            /\ r.internal = Occurrences(Out(h), ContextInternal, n)
            /\ r.needsReview = Occurrences(Out(h), UnknownOrBelow70, n)
            /\ r.userFacing + r.internal <= r.totalFound
            /\ r.needsReview >= Occurrences(Out(h), ContextUnknown, n)

\* A batch of three with one item in each bucket has been counted.
C6_Witness ==
    \E h \in Handlers :
    /\ HasResult(h)
    /\ Len(In(h)) = 3
    /\ response[h].body.userFacing = 1
    /\ response[h].body.internal = 1
    /\ response[h].body.needsReview = 1

\* C7: no item is user_facing or internal with confidence below 70, so the
\* three buckets partition the batch: userFacing + internal + needsReview =
\* totalFound and needsReview is the number of unknown items.
C7_Partition ==
    \A h \in Handlers :
    HasResult(h) =>
        LET r == response[h].body
        IN  /\ \A k \in 1..Len(Out(h)) :
                  ~(Out(h)[k].context \in {"user_facing", "internal"}
                    /\ Out(h)[k].confidence < 70)
            /\ r.userFacing + r.internal + r.needsReview = r.totalFound
            /\ r.needsReview = Occurrences(Out(h), ContextUnknown, Len(Out(h)))

\* A batch holds a component file with a user-facing indicator, an item at
\* confidence 70 and an unknown item.
C7_Witness ==
    \E h \in Handlers :
    /\ HasResult(h)
    /\ \E k \in 1..Len(In(h)) :
          /\ isComponentFile(In(h)[k].filePath)
          /\ hasUserFacingIndicators(SurroundingOrEmpty(In(h)[k]), In(h)[k].filePath)
          /\ Out(h)[k].context = "user_facing"
    /\ \E k \in 1..Len(Out(h)) : Out(h)[k].confidence = 70
    /\ response[h].body.needsReview >= 1

\* C8: the items are as many as the inputs and the k-th item is the
\* classification of the k-th input, with its filePath, lineNumber and
\* promptText unchanged.
C8_Order ==
    \A h \in Handlers :
    HasResult(h) =>
        /\ Len(Out(h)) = Len(In(h))
        /\ \A k \in 1..Len(In(h)) :
              /\ Out(h)[k].filePath = In(h)[k].filePath
              /\ Out(h)[k].lineNumber = In(h)[k].lineNumber
              /\ Out(h)[k].promptText = In(h)[k].promptText
              /\ Out(h)[k] = Classify(In(h)[k])

\* A batch whose first and last inputs differ in every echoed field.
C8_Witness ==
    \E h \in Handlers :
    /\ HasResult(h)
    /\ Len(In(h)) >= 2
    /\ In(h)[1].filePath # In(h)[Len(In(h))].filePath
    /\ In(h)[1].lineNumber # In(h)[Len(In(h))].lineNumber
    /\ In(h)[1].promptText # In(h)[Len(In(h))].promptText
    /\ Out(h)[1].filePath = In(h)[1].filePath

\* The request in flight carries an empty prompts array.
EmptyBatchRequest(h) ==
    /\ request[h].kind = "call"
    /\ request[h].arguments.prompts.type = "array"
    /\ Len(request[h].arguments.prompts.items) = 0

\* C9: an empty prompts array is answered with all counts 0, no items and
\* the summary "No prompts provided for analysis.", and auditPrompts is not
\* called.
C9_EmptyBatch ==
    \A h \in Handlers :
    (EmptyBatchRequest(h) /\ response[h] # NoResponse) =>
        /\ response[h].kind = "result"
        /\ response[h].body = [totalFound  |-> 0,
                            userFacing  |-> 0,
                            internal    |-> 0,
                            needsReview |-> 0,
                            prompts     |-> <<>>,
                            summary     |-> Str("No prompts provided for analysis.")]
        /\ classifierCalls[h] = 0

\* An empty batch has been answered.
C9_Witness ==
    \E h \in Handlers :
    /\ EmptyBatchRequest(h)
    /\ response[h].kind = "result"
    /\ response[h].body.totalFound = 0

\* C10: for a non-empty batch the summary is the template with the decimal
\* values of the result's own totalFound, userFacing, internal and
\* needsReview.
C10_Summary ==
    \A h \in Handlers :
    (HasResult(h) /\ Len(In(h)) > 0) =>
        LET r == response[h].body
        IN  r.summary =
              Str("Found " \o ToString(r.totalFound) \o " prompts: "
                    \o ToString(r.userFacing) \o " user-facing (recommend badges), "
                    \o ToString(r.internal) \o " internal (audit only), "
                    \o ToString(r.needsReview) \o " need manual review.")

\* A batch of ten or more (a two-digit count) has been summarised.
C10_Witness ==
    \E h \in Handlers :
    /\ HasResult(h)
    /\ response[h].body.totalFound >= 10
    /\ SubSeq(response[h].body.summary, 1, 7) = Str("Found 1")
    /\ EndsWith(response[h].body.summary, Str(" need manual review."))

\* The fields of an item that C11 and C15 compare.
Verdict(c) == <<c.context, c.confidence, c.suggestedAction>>

\* C11: the same candidate gets the same context, confidence,
\* suggestedAction and preview at every position of a batch, in every
\* batch, in a request handled at the same time, and after any earlier
\* requests.
C11_SameCandidateSameResult ==
    \A h \in Handlers :
    HasResult(h) =>
        \A k \in 1..Len(In(h)) :
            /\ \A g \in Handlers :
                  HasResult(g) =>
                      \A j \in 1..Len(In(g)) :
                          In(g)[j] = In(h)[k] =>
                              /\ Verdict(Out(g)[j]) = Verdict(Out(h)[k])
                              /\ Out(g)[j].preview = Out(h)[k].preview
            /\ (earlier.kind = "item" /\ earlier.input = In(h)[k]) =>
                  /\ Verdict(earlier.output) = Verdict(Out(h)[k])
                  /\ earlier.output.preview = Out(h)[k].preview

\* A candidate classified first in an earlier request has been classified
\* again in second position, after a different candidate.
C11_Witness ==
    \E h \in Handlers :
    /\ HasResult(h)
    /\ earlier.kind = "item"
    /\ Len(In(h)) = 2
    /\ In(h)[2] = earlier.input
    /\ In(h)[1] # In(h)[2]
    /\ Verdict(Out(h)[1]) # Verdict(Out(h)[2])
    /\ Out(h)[2] = earlier.output

\* C15: two candidates that agree on filePath and surroundingCode get the
\* same context, confidence and suggestedAction whatever their promptText
\* and lineNumber; the preview is the same when promptText agrees too, and
\* promptText and lineNumber are echoed.
C15_PathAndSurroundingOnly ==
    \A h \in Handlers :
    HasResult(h) =>
        \A k \in 1..Len(In(h)) :
            /\ Out(h)[k].promptText = In(h)[k].promptText
            /\ Out(h)[k].lineNumber = In(h)[k].lineNumber
            /\ \A j \in 1..Len(In(h)) :
                  (/\ In(h)[j].filePath = In(h)[k].filePath
                   /\ SurroundingOrEmpty(In(h)[j]) = SurroundingOrEmpty(In(h)[k])) =>
                      /\ Verdict(Out(h)[j]) = Verdict(Out(h)[k])
                      /\ In(h)[j].promptText = In(h)[k].promptText =>
                            Out(h)[j].preview = Out(h)[k].preview
            /\ (/\ earlier.kind = "item"
                /\ earlier.input.filePath = In(h)[k].filePath
                /\ SurroundingOrEmpty(earlier.input) = SurroundingOrEmpty(In(h)[k])) =>
                      /\ Verdict(earlier.output) = Verdict(Out(h)[k])
                      /\ earlier.input.promptText = In(h)[k].promptText =>
                            earlier.output.preview = Out(h)[k].preview

\* Two candidates of one batch agree on filePath and surroundingCode, differ
\* in promptText (one of them matching an internal pattern) and get the
\* same verdict; an earlier one differed in lineNumber only.
C15_Witness ==
    \E h \in Handlers :
    /\ HasResult(h)
    /\ Len(In(h)) = 2
    /\ In(h)[1].filePath = In(h)[2].filePath
    /\ SurroundingOrEmpty(In(h)[1]) = SurroundingOrEmpty(In(h)[2])
    /\ In(h)[1].promptText # In(h)[2].promptText
    /\ hasInternalIndicators(In(h)[2].promptText, <<>>)
    /\ Verdict(Out(h)[1]) = Verdict(Out(h)[2])
    /\ Out(h)[1].preview # Out(h)[2].preview
    /\ earlier.kind = "item"
    /\ earlier.input.filePath = In(h)[1].filePath
    /\ SurroundingOrEmpty(earlier.input) = SurroundingOrEmpty(In(h)[1])
    /\ earlier.input.promptText = In(h)[1].promptText
    /\ earlier.input.lineNumber # In(h)[1].lineNumber

\* The request in flight is malformed: it has no arguments, prompts is
\* absent or not an array, or one of its items lacks a required property.
IsMalformedRequest(h) ==
    /\ request[h].kind = "call"
    /\ \/ "arguments" \notin DOMAIN request[h]
       \/ IsFalsy(request[h].arguments.prompts)
       \/ ~IsArray(request[h].arguments.prompts)
       \/ \E i \in 1..Len(request[h].arguments.prompts.items) :
              ~(RequiredFields \subseteq DOMAIN request[h].arguments.prompts.items[i])

\* C12: every malformed audit_prompts request is answered with an
\* invalid-parameters error and auditPrompts is not called for it.
C12_MalformedRejected ==
    \A h \in Handlers :
    (IsMalformedRequest(h) /\ response[h] # NoResponse) =>
        /\ response[h].kind = "error"
        /\ response[h].code = "InvalidParams"
        /\ classifierCalls[h] = 0

\* The request in flight carries a non-empty array of prompts.
NonEmptyBatchRequest(h) ==
    /\ request[h].kind = "call"
    /\ IsArray(request[h].arguments.prompts)
    /\ Len(request[h].arguments.prompts.items) > 0

\* C13: every structurally valid candidate, empty strings included, is
\* classified without failure, with context in {user_facing, internal,
\* unknown}, an integer confidence in 0..100 and suggestedAction in
\* {register_badge, audit_only, review}; an empty filePath makes
\* isPublicFile, isApiFile and isComponentFile false, and an absent
\* surroundingCode gives the result of an empty one.
C13_AlwaysValid ==
    \A h \in Handlers :
    (NonEmptyBatchRequest(h) /\ response[h] # NoResponse) =>
        /\ response[h].kind = "result"
        /\ Len(Out(h)) = Len(In(h))
        /\ \A k \in 1..Len(In(h)) :
              /\ Out(h)[k].context \in {"user_facing", "internal", "unknown"}
              /\ Out(h)[k].confidence \in 0..100
              /\ Out(h)[k].suggestedAction \in {"register_badge", "audit_only", "review"}
              /\ In(h)[k].filePath = <<>> =>
                    /\ ~isPublicFile(In(h)[k].filePath)
                    /\ ~isApiFile(In(h)[k].filePath)
                    /\ ~isComponentFile(In(h)[k].filePath)
                    /\ SurroundingOrEmpty(In(h)[k]) = <<>> =>
                          <<Out(h)[k].context, Out(h)[k].confidence>> = <<"unknown", 50>>
              /\ "surroundingCode" \notin DOMAIN In(h)[k] =>
                    Out(h)[k] = Classify(In(h)[k] @@ [surroundingCode |-> <<>>])

\* A candidate with empty filePath, empty promptText and no
\* surroundingCode has been classified.
C13_Witness ==
    \E h \in Handlers :
    /\ HasResult(h)
    /\ \E k \in 1..Len(In(h)) :
          /\ In(h)[k].filePath = <<>>
          /\ In(h)[k].promptText = <<>>
          /\ "surroundingCode" \notin DOMAIN In(h)[k]
          /\ Out(h)[k].context = "unknown"
          /\ Out(h)[k].preview = <<>>

\* v is a string
IsString(v) == v.type = "string"

\* The remote call of the request in flight failed: fetch rejected, or the
\* response was not OK, or its body could not be read as JSON.
RemoteFailed(h) ==
    \/ remote[h].kind = "network_error"
    \/ remote[h].kind = "response" /\ (~remote[h].ok \/ remote[h].body.json = "unreadable")

\* The flag of the result of the register or verify request in flight.
ResultFlag(h) ==
    IF request[h].name = "register_secure_prompt" THEN response[h].body.success
    ELSE response[h].body.valid

\* C14: for register and verify, every failure of the remote call ends with
\* a result object whose flag (success, valid) is false and that carries an
\* error message string, never with a thrown error; the flag is true only
\* when the remote response was OK.  Violated: a response that is not OK
\* and whose body has a truthy error property that is not a string (a
\* number, true, an object) is answered with that value as the error.
C14_RemoteFailureIsResult ==
    \A h \in Handlers :
    (remote[h] # NoRemote /\ response[h] # NoResponse) =>
        /\ response[h].kind = "result"
        /\ RemoteFailed(h) =>
              /\ ResultFlag(h) = FALSE
              /\ "error" \in DOMAIN response[h].body
              /\ IsString(response[h].body.error)
        /\ ResultFlag(h) = TRUE => (remote[h].kind = "response" /\ remote[h].ok)

====
